---- MODULE Spec2Model ----
(***************************************************************************)
(* Verification model of artichoke-backend:                                *)
(*   src/value.rs                      Value, Protect, funcall and the     *)
(*                                     operations built on it, Clone       *)
(*   src/extn/core/regexp/case_compare.rs   Regexp#===                    *)
(*                                                                         *)
(* A raw sys::mrb_value is a record [tt |-> type tag]; the GC arena is the *)
(* sequence of rooted objects and an ArenaIndex is an index into it.       *)
(*                                                                         *)
(* Specifications: Spec (one funcall at a time), SpecReentrant (funcalls   *)
(* that nest), SpecClone (Clone for Value), SpecCase (Regexp#===) and      *)
(* SpecGc (savepoints, protect and is_dead around eval and full_gc).       *)
(***************************************************************************)
EXTENDS Integers, Sequences, FiniteSets, TLC

VARIABLES
    arena,      \* the VM's GC arena (root set): sequence of rooted objects
    exc,        \* (*mrb).exc, the VM's last-error slot: "null" or "exc"
    frames,     \* activations of Value::funcall, innermost last
    ret,        \* <<>> or <<record of the funcall that returned last>>
    handles,    \* the Value handles the host holds (Clone model)
    cloned,     \* <<>> or <<record of the last clone()/itself()>>
    gv,         \* the VM's global variables written by Regexp#===
    num_set_regexp_capture_globals,   \* ArtichokeState field
    cc,         \* <<>> or <<record of the Regexp#=== call that returned last>>
    heap,       \* the VM's heap: object id -> "unused", "live" or "dead"
    top,        \* the VM's register of the most recent eval result, if on the heap
    saves,      \* the ArenaIndex savepoints the host holds, innermost last,
                \* each with the number of objects allocated before it
    scoped,     \* the objects created inside a savepoint that was restored
    pins,       \* the Value::protect calls in effect: object, arena slot, depth
    released,   \* the Value::protect calls the last restore has undone
    gcOp        \* the last operation on the garbage collector

vars == <<arena, exc, frames, ret, handles, cloned, gv,
          num_set_regexp_capture_globals, cc,
          heap, top, saves, scoped, pins, released, gcOp>>

funcallVars == <<arena, exc, frames, ret>>
cloneVars   == <<handles, cloned>>
caseVars    == <<gv, num_set_regexp_capture_globals, cc>>
gcVars      == <<heap, top, saves, scoped, pins, released, gcOp>>

-----------------------------------------------------------------------------
(* Program constants and bounds *)

MRB_FUNCALL_ARGC_MAX == 16

\* argument lists run up to MRB_FUNCALL_ARGC_MAX + MaxExtraArgs entries
MaxExtraArgs == 1
\* capacity of the GC arena in the model
MaxArena == 3

-----------------------------------------------------------------------------
(* Values and type tags *)

\* the Ruby type tags the code distinguishes (types::Ruby)
Tags == {"Bool", "String", "Data", "Unreachable"}

Val(t) == [tt |-> t]

\* Value::ruby_type: the Rust-mapped type tag of the wrapped mrb_value
ruby_type(v) == v.tt

\* mutant: compares against the wrong tag
is_unreachable_data(v) == ruby_type(v) = "Data"

\* Value::is_unreachable
is_unreachable(v) == ruby_type(v) = "Unreachable"

\* Ruby::class_name as used by to_s_debug
class_name(t) ==
    CASE t = "Bool" -> "Boolean"
      [] t = "String" -> "String"
      [] t = "Data" -> "Rust-backed Ruby instance"
      [] OTHER -> "internal and unreachable"

\* immediate (unboxed) values are never rooted by mrb_gc_protect
immediate(v) == ruby_type(v) \in {"Bool", "Fixnum", "Nil"}

\* the object a heap value points to; the values of the dispatch model carry
\* no identity and stand for one object
basic_ptr(v) == IF "id" \in DOMAIN v THEN v.id ELSE "protected"

\* the conversion targets T of funcall::<T>
ConvTypes == {"Value", "String", "bool"}

\* TryConvert<Value, T>: Ok exactly when the type tag fits T
try_convert(v, T) ==
    IF T = "Value" THEN [kind |-> "Ok", val |-> ruby_type(v)]
    ELSE IF T = "String" /\ ruby_type(v) = "String" THEN [kind |-> "Ok", val |-> "str"]
    ELSE IF T = "bool" /\ ruby_type(v) = "Bool" THEN [kind |-> "Ok", val |-> "bool"]
    ELSE [kind |-> "ConvertToRust", val |-> ruby_type(v)]

-----------------------------------------------------------------------------
(* GC arena *)

\* Artichoke::create_arena_savepoint: the current arena index
create_arena_savepoint(a) == Len(a)

\* mutant: the restore drops the last entry of the arena only
arena_restore_one(a, idx) == SubSeq(a, 1, Len(a) - 1)

\* ArenaIndex::restore / Drop for ArenaIndex: mrb_gc_arena_restore
arena_restore(a, idx) == SubSeq(a, 1, idx)

\* mutant: protect roots nothing
protect_noop(a, v) == a

\* Value::protect: mrb_gc_protect adds a heap value to the arena
protect(a, v) == IF immediate(v) THEN a ELSE Append(a, basic_ptr(v))

-----------------------------------------------------------------------------
(* Protected call dispatch: Protect and Value::funcall *)

\* Protect::new: the request record, without a block
Protect_new(slf, func_sym, args) ==
    [slf |-> slf, func_sym |-> func_sym, args |-> args, block |-> <<>>]

\* Protect::with_block
with_block(p, block) == [p EXCEPT !.block = <<block>>]

\* the argument lists the host passes: n String values, the last one
\* possibly carrying the unreachable tag
ArgLens == {0, 1, MRB_FUNCALL_ARGC_MAX}
           \cup (MRB_FUNCALL_ARGC_MAX + 1 .. MRB_FUNCALL_ARGC_MAX + MaxExtraArgs)

ArgLists ==
    {[i \in 1..n |-> Val(IF u /\ i = n THEN "Unreachable" ELSE "String")] :
        n \in ArgLens, u \in BOOLEAN}

\* Option<Block>: <<>> is None, <<b>> is Some(b)
Blocks == {<<>>, <<Val("Data")>>, <<Val("Unreachable")>>}

\* the entry points of the layer and the funcall each of them issues
FuncallRequests ==
    {[op |-> "funcall", slf |-> Val(t), func |-> "m", args |-> a, block |-> b, T |-> T] :
        t \in Tags, a \in ArgLists, b \in Blocks, T \in ConvTypes}

WrapperRequests ==
    {[op |-> "freeze", slf |-> Val(t), func |-> "freeze", args |-> <<>>,
      block |-> <<>>, T |-> "Value"] : t \in Tags}
    \cup {[op |-> o, slf |-> Val(t), func |-> "inspect", args |-> <<>>,
           block |-> <<>>, T |-> "String"] : o \in {"inspect", "to_s_debug"}, t \in Tags}
    \cup {[op |-> "to_s", slf |-> Val(t), func |-> "to_s", args |-> <<>>,
           block |-> <<>>, T |-> "String"] : t \in Tags}
    \cup {[op |-> "respond_to", slf |-> Val(t), func |-> "respond_to?",
           args |-> <<Val("String")>>, block |-> <<>>, T |-> "bool"] : t \in Tags}

Requests == FuncallRequests \cup WrapperRequests

\* the activation record of one funcall: its inputs, its savepoint, its
\* position, the boxed request and what the call has done so far
NewFrame(r, a) ==
    [op |-> r.op, slf |-> r.slf, func |-> r.func, args |-> r.args,
     block |-> r.block, T |-> r.T,
     arena_idx |-> create_arena_savepoint(a),
     pc |-> "entered",
     box |-> "none", request |-> <<>>, boxAllocs |-> 0, boxFrees |-> 0,
     interned |-> 0, protectCalls |-> 0, vmCalls |-> 0,
     boxAtCall |-> "none", passed |-> <<>>, primitive |-> "none",
     state |-> 0, value |-> Val("none"),
     checked |-> 0, converted |-> 0,
     kind |-> "none", val |-> "", given |-> 0, max |-> 0,
     exit_idx |-> 0 - 1, api |-> [kind |-> "none", text |-> <<>>]]

Top == frames[Len(frames)]

\* mutant: the bound is taken to be exclusive
args_over_limit_ge(n) == n >= MRB_FUNCALL_ARGC_MAX

\* funcall: the argument-count check
args_over_limit(n) == n > MRB_FUNCALL_ARGC_MAX

\* funcall: sym_intern, Protect::new, with_block, Box::into_raw(Box::new(..)),
\* mrb_sys_cptr_value and the call of mrb_protect
dispatch(f) ==
    LET p0 == Protect_new(f.slf, f.func, f.args)
        p  == IF f.block # <<>> THEN with_block(p0, f.block[1]) ELSE p0
    IN [f EXCEPT !.interned = @ + 1,
                 !.request = <<p>>, !.box = "live", !.boxAllocs = @ + 1,
                 !.protectCalls = @ + 1, !.pc = "protect"]

\* mutant: the box is not dropped before the forwarded call
run_drop_skipped(f) == f

\* Protect::run: Box::from_raw and drop(protect)
run_drop(f) ==
    [f EXCEPT !.box = IF @ = "live" THEN "freed" ELSE "double-free",
              !.boxFrees = @ + 1]

\* Protect::run: the fields are read out of the box, the box is dropped, and
\* the forwarded VM call begins
run(f) ==
    LET p == f.request[1]
        d == run_drop(f)
    IN [d EXCEPT !.passed = <<[slf |-> p.slf, args |-> p.args, block |-> p.block]>>,
                 !.primitive = IF p.block # <<>> THEN "mrb_funcall_with_block"
                               ELSE "mrb_funcall_argv",
                 !.boxAtCall = d.box,
                 !.vmCalls = @ + 1, !.pc = "vm"]

\* mutant: the caught exception is not put back into the last-error slot
set_exc_skipped(state, e) == e

\* funcall: if state != 0 { (*mrb).exc = mrb_sys_obj_ptr(value) }
set_exc(state, e) == IF state # 0 THEN "exc" ELSE e

\* Artichoke::last_error: what it reports for a last-error slot
last_error(e, extractable) ==
    IF e = "null" THEN "None"
    ELSE IF extractable THEN "Some" ELSE "UnableToExtract"

\* mutant: last_error reads the slot and leaves the exception in it
last_error_slot_kept(e) == e

\* Artichoke::last_error takes the exception out of the slot
last_error_slot(e) == "null"

Outcome(kind, val, checked, converted) ==
    [kind |-> kind, val |-> val, given |-> 0, max |-> 0,
     checked |-> checked, converted |-> converted]

\* mutant: the final arm does not classify the call
classify_partial(f, le) ==
    IF le = "Some" THEN Outcome("Exec", "description", 0, 0)
    ELSE IF le = "UnableToExtract" THEN Outcome("UnableToExtract", "diagnostic", 0, 0)
    ELSE IF is_unreachable(f.value) THEN Outcome("UnreachableValue", "", 1, 0)
    ELSE Outcome("none", "", 1, 0)

\* funcall: match self.interp.last_error() { .. }
classify(f, le) ==
    IF le = "Some" THEN Outcome("Exec", "description", 0, 0)
    ELSE IF le = "UnableToExtract" THEN Outcome("UnableToExtract", "diagnostic", 0, 0)
    ELSE IF is_unreachable(f.value) THEN Outcome("UnreachableValue", "", 1, 0)
    ELSE LET c == try_convert(f.value, f.T)
         IN Outcome(c.kind, c.val, 1, 1)

\* funcall: the TooManyArgs error
too_many_args(f) ==
    [kind |-> "TooManyArgs", val |-> "", given |-> Len(f.args),
     max |-> MRB_FUNCALL_ARGC_MAX, checked |-> 0, converted |-> 0]

ErrKinds == {"Exec", "UnableToExtract", "UnreachableValue", "TooManyArgs", "ConvertToRust"}

\* mutant: freeze drops the error of its funcall
freeze_ignore_err(res) == [kind |-> "Ok", text |-> <<"()">>]

\* ValueLike::freeze: funcall::<Self>("freeze")? then Ok(())
freeze(res) ==
    IF res.kind = "Ok" THEN [kind |-> "Ok", text |-> <<"()">>]
    ELSE [kind |-> res.kind, text |-> <<res.val>>]

\* ValueLike::inspect and ValueLike::to_s: unwrap_or_else(|_| "<unknown>")
inspect(res) ==
    IF res.kind = "Ok" THEN [kind |-> "String", text |-> <<res.val>>]
    ELSE [kind |-> "String", text |-> <<"<unknown>">>]

\* Value::to_s_debug: format!("{}<{}>", class_name, inspect)
to_s_debug(slf, res) ==
    [kind |-> "String",
     text |-> <<class_name(ruby_type(slf)), "<">> \o inspect(res).text \o <<">">>]

\* ValueLike::respond_to and a direct funcall hand the Result on
respond_to(res) == [kind |-> res.kind, text |-> <<res.val>>]

\* what the entry point returns to its caller
api_result(f, res) ==
    CASE f.op = "freeze" -> freeze(res)
      [] f.op \in {"inspect", "to_s"} -> inspect(res)
      [] f.op = "to_s_debug" -> to_s_debug(f.slf, res)
      [] OTHER -> respond_to(res)

\* mutant: the savepoint is bound to `_`, dropped at once, and nothing is
\* restored when the function is left
scope_exit_dropped_at_binding(a, f, res) == a

\* mutant: the arena is restored to its bottom, not to the savepoint
scope_exit_to_bottom(a, f, res) == arena_restore(a, 0)

\* funcall: _arena goes out of scope on every path out of the function
scope_exit(a, f, res) == arena_restore(a, f.arena_idx)

\* a funcall returns res: the savepoint is restored, the entry point finishes
\* (freeze protects the frozen value) and the activations in rest go on
ReturnTo(rest, f, res) ==
    LET restored == scope_exit(arena, f, res)
        done == [f EXCEPT !.pc = "done", !.kind = res.kind, !.val = res.val,
                          !.given = res.given, !.max = res.max,
                          !.checked = res.checked, !.converted = res.converted,
                          !.exit_idx = Len(restored),
                          !.api = api_result(f, res)]
    IN /\ arena' = IF f.op = "freeze" /\ res.kind = "Ok"
                   THEN protect(restored, f.value) ELSE restored
       /\ frames' = rest
       /\ ret' = <<done>>

\* the innermost funcall returns res and its activation is popped
Return(f, res) == ReturnTo(SubSeq(frames, 1, Len(frames) - 1), f, res)

\* funcall with more than MRB_FUNCALL_ARGC_MAX arguments
FuncallTooManyArgs ==
    /\ frames = <<>>
    /\ \E r \in Requests :
         LET f == NewFrame(r, arena)
         IN /\ args_over_limit(Len(f.args))
            /\ Return(f, too_many_args(f))
    /\ UNCHANGED <<exc, cloneVars, caseVars, gcVars>>

\* funcall up to the call of mrb_protect; the cptr object that carries the
\* box is allocated in the VM and rooted in the arena
FuncallDispatch ==
    /\ frames = <<>>
    /\ Len(arena) < MaxArena
    /\ \E r \in Requests :
         LET f == NewFrame(r, arena)
         IN /\ ~args_over_limit(Len(f.args))
            /\ frames' = Append(frames, dispatch(f))
    /\ arena' = Append(arena, "cptr")
    /\ ret' = <<>>
    /\ UNCHANGED <<exc, cloneVars, caseVars, gcVars>>

\* mrb_protect calls the trampoline Protect::run
ProtectRun ==
    /\ frames # <<>> /\ Top.pc = "protect"
    /\ frames' = [frames EXCEPT ![Len(frames)] = run(Top)]
    /\ UNCHANGED <<arena, exc, ret, cloneVars, caseVars, gcVars>>

\* the VM allocates an object while it executes the method
VmAlloc ==
    /\ frames # <<>> /\ Top.pc = "vm"
    /\ Len(arena) < MaxArena
    /\ arena' = Append(arena, "obj")
    /\ UNCHANGED <<exc, frames, ret, cloneVars, caseVars, gcVars>>

\* the forwarded call returns a value; mrb_protect reports state = 0
VmReturn ==
    /\ frames # <<>> /\ Top.pc = "vm"
    /\ \E t \in Tags :
         frames' = [frames EXCEPT ![Len(frames)] =
                       [Top EXCEPT !.pc = "returned", !.state = 0, !.value = Val(t)]]
    /\ UNCHANGED <<arena, exc, ret, cloneVars, caseVars, gcVars>>

\* the forwarded call leaves by the VM's non-local jump; mrb_protect catches
\* it, empties the last-error slot and returns the exception with state = 1
VmRaise ==
    /\ frames # <<>> /\ Top.pc = "vm"
    /\ frames' = [frames EXCEPT ![Len(frames)] =
                     [Top EXCEPT !.pc = "returned", !.state = 1,
                                 !.value = Val("Exception")]]
    /\ exc' = "null"
    /\ UNCHANGED <<arena, ret, cloneVars, caseVars, gcVars>>

\* funcall after mrb_protect: the outcome is classified and returned
FuncallClassify ==
    /\ frames # <<>> /\ Top.pc = "returned"
    /\ \E extractable \in BOOLEAN :
         LET e  == set_exc(Top.state, exc)
             le == last_error(e, extractable)
         IN /\ exc' = last_error_slot(e)
            /\ Return(Top, classify(Top, le))
    /\ UNCHANGED <<cloneVars, caseVars, gcVars>>

\* the host restores a savepoint it took before its calls
HostArenaRestore ==
    /\ frames = <<>> /\ arena # <<>>
    /\ arena' = arena_restore(arena, 0)
    /\ ret' = <<>>
    /\ UNCHANGED <<exc, frames, cloneVars, caseVars, gcVars>>


-----------------------------------------------------------------------------
(* Reentrant calls: the method the VM runs calls back into host code, which
   issues another funcall *)

\* funcalls nest up to MaxDepth deep
MaxDepth == 2

\* the calls of the reentrant runs: a funcall with no argument, one with more
\* than MRB_FUNCALL_ARGC_MAX arguments, and freeze, on a String
ReentrantRequests ==
    {r \in Requests :
        /\ r.slf = Val("String") /\ r.block = <<>>
        /\ \/ r.op = "freeze"
           \/ /\ r.op = "funcall" /\ r.T = "Value"
              /\ Len(r.args) \in {0, MRB_FUNCALL_ARGC_MAX + 1}
              /\ \A i \in 1..Len(r.args) : r.args[i] = Val("String")}

\* host code may call funcall when no funcall is in progress or while the VM
\* executes the method of the innermost one
MayCall ==
    /\ Len(frames) < MaxDepth
    /\ frames # <<>> => Top.pc = "vm"

\* funcall, possibly from inside a funcall, with too many arguments
ReentrantTooManyArgs ==
    /\ MayCall
    /\ \E r \in ReentrantRequests :
         LET f == NewFrame(r, arena)
         IN /\ args_over_limit(Len(f.args))
            /\ ReturnTo(frames, f, too_many_args(f))
    /\ UNCHANGED <<exc, cloneVars, caseVars, gcVars>>

\* funcall, possibly from inside a funcall, up to the call of mrb_protect
ReentrantDispatch ==
    /\ MayCall
    /\ Len(arena) < MaxArena
    /\ \E r \in ReentrantRequests :
         LET f == NewFrame(r, arena)
         IN /\ ~args_over_limit(Len(f.args))
            /\ frames' = Append(frames, dispatch(f))
    /\ arena' = Append(arena, "cptr")
    /\ ret' = <<>>
    /\ UNCHANGED <<exc, cloneVars, caseVars, gcVars>>

-----------------------------------------------------------------------------
(* Properties of the protected call dispatch *)

\* the funcalls in progress and the one that returned last
Activations == {frames[i] : i \in 1..Len(frames)}
Returned == {ret[i] : i \in 1..Len(ret)}

Dispatched(f) == Len(f.args) <= MRB_FUNCALL_ARGC_MAX

\* the values a request hands to the VM call primitive
HandedToVm(f) ==
    {f.passed[1].slf}
    \cup {f.passed[1].args[i] : i \in 1..Len(f.passed[1].args)}
    \cup {f.passed[1].block[i] : i \in 1..Len(f.passed[1].block)}

\* C1: a funcall that passes the argument-count check allocates exactly one
\* boxed request; the box is live until the trampoline runs, is freed exactly
\* once before the forwarded VM call starts, stays freed however that call
\* ends, and no box is live when funcall returns.
C1_BoxFreedOnceBeforeForwardedCall ==
    /\ \A f \in Activations :
         /\ f.boxAllocs = 1
         /\ f.pc = "protect" => f.box = "live" /\ f.boxFrees = 0
         /\ f.pc \in {"vm", "returned"} =>
               f.box = "freed" /\ f.boxFrees = 1 /\ f.boxAtCall = "freed"
    /\ \A f \in Returned :
         /\ f.box # "live"
         /\ Dispatched(f) =>
               /\ f.boxAllocs = 1 /\ f.boxFrees = 1
               /\ f.box = "freed" /\ f.boxAtCall = "freed"

\* a funcall whose forwarded call left by the non-local jump has returned
C1_Witness ==
    \E f \in Returned : f.state = 1 /\ f.vmCalls = 1 /\ f.box = "freed"

\* C2: the arena index when funcall returns equals the index at its entry, on
\* every exit path; after a failing funcall the arena is as long as it was
\* before the call.
C2_SavepointRestoredOnEveryExit ==
    \A f \in Returned :
        /\ f.exit_idx = f.arena_idx
        /\ f.kind # "Ok" => Len(arena) = f.arena_idx

\* a funcall that raised returns with a non-empty arena restored to its
\* entry index
C2_Witness ==
    \E f \in Returned : f.kind = "Exec" /\ f.arena_idx > 0 /\ Len(arena) = f.arena_idx

\* C3 as stated: every funcall is classified as Success, Exception,
\* ExtractionFailure, UnreachableValue or TooManyArguments.
C3_Original_FiveOutcomes ==
    \A f \in Returned :
        f.kind \in {"Ok", "Exec", "UnableToExtract", "UnreachableValue", "TooManyArgs"}

\* C3 amended: every funcall returns exactly one of Success, Exception,
\* ExtractionFailure, UnreachableValue, TooManyArguments or ConversionFailure;
\* ConversionFailure is returned only when no exception was recorded, the
\* value is not unreachable and its conversion to T failed.
C3_SixOutcomes ==
    \A f \in Returned :
        /\ f.kind \in {"Ok", "Exec", "UnableToExtract", "UnreachableValue",
                       "TooManyArgs", "ConvertToRust"}
        /\ f.kind = "ConvertToRust" =>
              /\ Dispatched(f) /\ f.state = 0
              /\ ruby_type(f.value) # "Unreachable"
              /\ f.converted = 1

\* a funcall whose result could not be converted to T has returned
C3_Witness ==
    \E f \in Returned : f.kind = "ConvertToRust" /\ f.T = "String"

C5_ExceptionIsAnError ==
    \A f \in Returned :
        f.state = 1 =>
            /\ f.kind \in {"Exec", "UnableToExtract"}
            /\ f.checked = 0 /\ f.converted = 0

\* a funcall whose exception could not be extracted has returned
C5_Witness ==
    \E f \in Returned : f.state = 1 /\ f.kind = "UnableToExtract"

\* C6: with no exception recorded and an unreachable-tagged value returned,
\* funcall returns UnreachableValue without converting the value; Ok is
\* never built from an unreachable-tagged value.
C6_UnreachableResultRejected ==
    \A f \in Returned :
        /\ (Dispatched(f) /\ f.state = 0 /\ ruby_type(f.value) = "Unreachable") =>
              f.kind = "UnreachableValue" /\ f.converted = 0
        /\ f.kind = "Ok" => ruby_type(f.value) # "Unreachable"

\* a funcall to which the VM returned an unreachable value has returned
C6_Witness ==
    \E f \in Returned :
        f.state = 0 /\ ruby_type(f.value) = "Unreachable" /\ f.kind = "UnreachableValue"

\* C7 as stated: funcall never hands an unreachable-tagged target, argument
\* or block to the VM call primitive.
C7_NoUnreachableHandedToVm ==
    \A f \in Activations :
        f.pc = "vm" => \A v \in HandedToVm(f) : ruby_type(v) # "Unreachable"

\* C8 as stated: a script-level exception raised under any entry point of the
\* layer reaches the caller as a typed error.
C8_Original_AlwaysPropagated ==
    \A f \in Returned : f.state = 1 => f.api.kind \in ErrKinds

\* C8 amended: a script-level exception raised under funcall, freeze or
\* respond_to reaches the caller as a typed error (Exec or the extraction
\* failure); inspect and to_s return the text "<unknown>" instead, and
\* to_s_debug embeds it.
C8_PropagatedExceptByInspectAndToS ==
    \A f \in Returned :
        f.state = 1 =>
            CASE f.op \in {"inspect", "to_s"} ->
                     f.api = [kind |-> "String", text |-> <<"<unknown>">>]
              [] f.op = "to_s_debug" ->
                     f.api.kind = "String" /\ f.api.text[3] = "<unknown>"
              [] OTHER -> f.api.kind \in {"Exec", "UnableToExtract"}

\* freeze has returned the error of a funcall that raised
C8_Witness ==
    \E f \in Returned : f.op = "freeze" /\ f.state = 1 /\ f.api.kind = "Exec"

-----------------------------------------------------------------------------
(* Clone for Value, Value::new and ValueLike::itself *)

\* the host holds at most MaxHandles handles
MaxHandles == 2
\* VM objects per type tag
MaxObjects == 1

Interps == {"interp1", "interp2"}

RawValues == {[tt |-> t, id |-> n] : t \in Tags, n \in 1..MaxObjects}

\* Value::new
Value_new(interp, value) == [interp |-> interp, value |-> value]

\* mutant: the foreign-data check is missing
clone_unchecked(h) == <<[interp |-> h.interp, value |-> h.value]>>

\* Clone for Value: <<>> is the panic, <<c>> the clone
clone(h) ==
    IF ruby_type(h.value) = "Data" THEN <<>>
    ELSE <<[interp |-> h.interp, value |-> h.value]>>

\* ValueLike::try_into: interp.try_convert(self)
try_into(h, T) == try_convert(h.value, T)

\* ValueLike::itself: self.clone().try_into::<T>()
itself(h, T) ==
    LET c == clone(h)
    IN IF c = <<>> THEN [panicked |-> TRUE, made |-> <<>>, kind |-> "panic"]
       ELSE [panicked |-> FALSE,
             made |-> IF T = "Value" THEN c ELSE <<>>,
             kind |-> try_into(c[1], T).kind]

Held(h, via) == [interp |-> h.interp, value |-> h.value, via |-> via]

\* the host wraps a raw VM value in a handle
ValueNew ==
    /\ Len(handles) < MaxHandles
    /\ \E i \in Interps, v \in RawValues :
         handles' = Append(handles, Held(Value_new(i, v), "new"))
    /\ cloned' = <<>>
    /\ UNCHANGED <<funcallVars, caseVars, gcVars>>

\* the host clones a handle it holds
ValueClone ==
    /\ Len(handles) < MaxHandles
    /\ \E k \in 1..Len(handles) :
         LET c == clone(handles[k])
         IN /\ handles' = IF c = <<>> THEN handles
                          ELSE Append(handles, Held(c[1], "clone"))
            /\ cloned' = <<[op |-> "clone", src |-> handles[k], T |-> "Value",
                            panicked |-> (c = <<>>), kind |-> "none",
                            before |-> Len(handles)]>>
    /\ UNCHANGED <<funcallVars, caseVars, gcVars>>

\* the host calls itself::<T>() on a handle it holds
ValueItself ==
    /\ Len(handles) < MaxHandles
    /\ \E k \in 1..Len(handles), T \in ConvTypes :
         LET r == itself(handles[k], T)
         IN /\ handles' = IF r.made = <<>> THEN handles
                          ELSE Append(handles, Held(r.made[1], "clone"))
            /\ cloned' = <<[op |-> "itself", src |-> handles[k], T |-> T,
                            panicked |-> r.panicked, kind |-> r.kind,
                            before |-> Len(handles)]>>
    /\ UNCHANGED <<funcallVars, caseVars, gcVars>>

\* the host drops a handle; the VM value is not touched
ValueDrop ==
    /\ \E k \in 1..Len(handles) :
         handles' = SubSeq(handles, 1, k - 1) \o SubSeq(handles, k + 1, Len(handles))
    /\ cloned' = <<>>
    /\ UNCHANGED <<funcallVars, caseVars, gcVars>>


\* C9: cloning a handle whose tag is Ruby::Data panics and adds no handle;
\* cloning any other handle returns one with the same raw value and the same
\* interpreter; no handle that results from a clone is a foreign-data handle.
C9_CloneRefusesForeignData ==
    /\ \A i \in 1..Len(cloned) :
         LET c == cloned[i]
         IN IF ruby_type(c.src.value) = "Data"
            THEN c.panicked /\ Len(handles) = c.before
            ELSE /\ ~c.panicked
                 /\ IF c.op = "clone" \/ c.T = "Value"
                    THEN /\ Len(handles) = c.before + 1
                         /\ handles[Len(handles)].value = c.src.value
                         /\ handles[Len(handles)].interp = c.src.interp
                    ELSE Len(handles) = c.before
    /\ \A k \in 1..Len(handles) :
         handles[k].via = "clone" => ruby_type(handles[k].value) # "Data"

\* a clone of a foreign-data handle has panicked while the host holds it
C9_Witness ==
    \E i \in 1..Len(cloned) :
        /\ cloned[i].op = "clone" /\ cloned[i].panicked
        /\ ruby_type(cloned[i].src.value) = "Data"
        /\ Len(handles) = 1

-----------------------------------------------------------------------------
(* Regexp#=== : case_compare::Args::extract and case_compare::method *)

\* a regexp has at most MaxGroups groups, group 0 included
MaxGroups == 2
\* candidate strings have at most MaxStrLen characters
MaxStrLen == 1

\* Option<T>: Nil is None / nil, Some(x) a present value
Nil == <<>>
Some(x) == <<x>>

Max(a, b) == IF a >= b THEN a ELSE b

\* the candidate strings: the prefixes "", "a", "ab", .. of one text whose
\* characters differ, so that a slice is known by its content
Text == <<"a", "b", "c", "d", "e", "f">>

Strings == {SubSeq(Text, 1, n) : n \in 0..MaxStrLen}

\* the values a script passes as the candidate
Candidates ==
    {[tt |-> "Nil", s |-> <<>>], [tt |-> "Fixnum", s |-> <<>>]}
    \cup {[tt |-> "String", s |-> s] : s \in Strings}

\* the receivers: a value that is no Regexp, a Regexp whose regex is not
\* initialised, a Rust-backed one, and Onig-backed ones with 1..MaxGroups groups
Receivers ==
    {[kind |-> k, groups |-> 0] : k \in {"NotRegexp", "Uninit", "Rust"}}
    \cup {[kind |-> "Onig", groups |-> g] : g \in 1..MaxGroups}

\* s[b..e) by offsets
Slice(s, b, e) == SubSeq(s, b + 1, e)

\* what regex.captures(string) can return: None, or captures of the regexp's
\* groups: group 0 spans [b, e), a later group took part in the match or not
Matches(recv, s) ==
    {Nil} \cup
    UNION {{Some([len |-> recv.groups, b |-> b, e |-> e,
                  groups |-> [i \in 1..recv.groups |->
                                 IF i = 1 \/ i - 1 \in part
                                 THEN Some(Slice(s, b, e)) ELSE Nil]]) :
               e \in b..Len(s), part \in SUBSET (1..recv.groups - 1)} :
           b \in 0..Len(s)}

\* Captures::at(group)
captures_at(c, group) == IF group < c.len THEN c.groups[group + 1] ELSE Nil

\* mutant: a candidate that does not convert is taken as no candidate
extract_lenient(arg) ==
    IF arg.tt = "String"
    THEN [ok |-> TRUE, string |-> Some(arg.s)]
    ELSE [ok |-> TRUE, string |-> Nil]

\* Args::extract: try_convert of the argument to Option<String>
extract(arg) ==
    CASE arg.tt = "Nil" -> [ok |-> TRUE, string |-> Nil]
      [] arg.tt = "String" -> [ok |-> TRUE, string |-> Some(arg.s)]
      [] OTHER -> [ok |-> FALSE, string |-> Nil]

\* mutant: only the groups of this match are written
num_regexp_globals_to_set_len(prev, c) == c.len

\* method: cmp::max(num_previously_set_globals, captures.len())
num_regexp_globals_to_set(prev, c) == Max(prev, c.len)

\* mutant: the loop starts at group 1, $& is not written
set_capture_globals_from_one(cap, c, n) ==
    [group \in DOMAIN cap |->
        IF 0 < group /\ group < n THEN captures_at(c, group) ELSE cap[group]]

\* method: the loop over 0..num_regexp_globals_to_set writes $& and $1, $2, ..
set_capture_globals(cap, c, n) ==
    [group \in DOMAIN cap |-> IF group < n THEN captures_at(c, group) ELSE cap[group]]

\* mutant: the end offset is the start offset
MatchData_new_empty(string, regexp, start, end) ==
    [string |-> string, regexp |-> regexp, start |-> start, end |-> start]

\* MatchData::new(string, regexp, 0, string.len())
MatchData_new(string, regexp, start, end) ==
    [string |-> string, regexp |-> regexp, start |-> start, end |-> end]

\* the interpreter state method reads and writes, and what it returns
CaseState(g, n, outcome, result) ==
    [gv |-> g, num |-> n, outcome |-> outcome, result |-> result]

\* mutant: a nil candidate clears the pre-match and post-match too
no_candidate_clears_all(g, num) ==
    CaseState([g EXCEPT !.pre = Nil, !.post = Nil, !.last = Nil], num, "Ok", FALSE)

\* method: the branch of a nil candidate, which sets $~ to nil and returns false
no_candidate(g, num) == CaseState([g EXCEPT !.last = Nil], num, "Ok", FALSE)

\* mutant: a failed match resets the recorded count
no_match_resets_count(g, num) ==
    CaseState([g EXCEPT !.pre = Nil, !.post = Nil, !.last = Nil], 0, "Ok", FALSE)

\* method: the branch of a candidate the pattern does not match
no_match(g, num) ==
    CaseState([g EXCEPT !.pre = Nil, !.post = Nil, !.last = Nil], num, "Ok", FALSE)

\* case_compare::method
method(g, num, string, recv, m, into_ruby_ok) ==
    IF recv.kind = "NotRegexp" THEN CaseState(g, num, "Fatal", FALSE)
    ELSE IF string = Nil
    THEN no_candidate(g, num)
    ELSE IF recv.kind = "Uninit" THEN CaseState(g, num, "Fatal", FALSE)
    ELSE IF recv.kind = "Rust" THEN CaseState(g, num, "panic", FALSE)
    ELSE IF m # Nil
    THEN LET c  == m[1]
             s  == string[1]
             n  == num_regexp_globals_to_set(num, c)
             g1 == [g EXCEPT !.cap = set_capture_globals(g.cap, c, n),
                             !.pre = Some(Slice(s, 0, c.b)),
                             !.post = Some(Slice(s, c.e, Len(s)))]
             md == MatchData_new(s, recv, 0, Len(s))
         IN IF into_ruby_ok
            THEN CaseState([g1 EXCEPT !.last = Some(md)], c.len, "Ok", TRUE)
            ELSE CaseState(g1, c.len, "Fatal", FALSE)
    ELSE no_match(g, num)

\* what the pattern engine can answer for this receiver and candidate
EngineResults(recv, string) ==
    IF recv.kind = "Onig" /\ string # Nil THEN Matches(recv, string[1]) ELSE {Nil}

\* whether MatchData::try_into_ruby succeeds; it is called on a match only
IntoRubyResults(m) == IF m # Nil THEN BOOLEAN ELSE {TRUE}

\* the record of a call: the kind of receiver and of candidate, the captures
\* and the candidate text of a match, whether the MatchData could be built,
\* the count before the call, the return
Called(recv, arg, m, built, prev, outcome, result) ==
    [recv |-> recv.kind, arg |-> arg.tt,
     s |-> IF m # Nil THEN arg.s ELSE <<>>, captures |-> m, built |-> built,
     prev |-> prev, outcome |-> outcome, result |-> result]

\* a script evaluates  receiver === candidate
CaseCompare ==
    /\ \E recv \in Receivers, arg \in Candidates :
         LET a == extract(arg)
             prev == num_set_regexp_capture_globals
         IN IF ~a.ok
            THEN /\ cc' = <<Called(recv, arg, Nil, TRUE, prev,
                                   "NoImplicitConversionToString", FALSE)>>
                 /\ UNCHANGED <<gv, num_set_regexp_capture_globals>>
            ELSE \E m \in EngineResults(recv, a.string) :
                   \E into_ruby_ok \in IntoRubyResults(m) :
                     LET r == method(gv, prev, a.string, recv, m, into_ruby_ok)
                     IN /\ gv' = r.gv
                        /\ num_set_regexp_capture_globals' = r.num
                        /\ cc' = <<Called(recv, arg, m, into_ruby_ok, prev,
                                       r.outcome, r.result)>>
    /\ UNCHANGED <<funcallVars, cloneVars, gcVars>>

-----------------------------------------------------------------------------
(* Garbage collection: savepoints, Value::protect and Value::is_dead *)

\* the VM's heap holds up to MaxHeap objects
MaxHeap == 2
\* the host holds up to MaxSavepoints savepoints at a time
MaxSavepoints == 2
\* the arena holds up to MaxRoots entries in the runs of the collector
MaxRoots == 2

Objs == 1..MaxHeap

\* a String on the heap, and the immediate values: a Fixnum carries its
\* number, true carries 1 and nil 0 in the word a heap value has its pointer in
StringValue(o) == [tt |-> "String", id |-> o]
Immediates ==
    {[tt |-> "Fixnum", id |-> n] : n \in Objs}
    \cup {[tt |-> "Bool", id |-> 1], [tt |-> "Nil", id |-> 0]}

\* the objects the collector marks from: the arena and the VM's register
Roots(a, t) ==
    {a[i] : i \in 1..Len(a)}
    \cup (IF t # Nil /\ ~immediate(t[1]) THEN {t[1].id} ELSE {})

\* Artichoke::full_gc: every live object that no root reaches is freed
full_gc(h, roots) ==
    [o \in DOMAIN h |-> IF h[o] = "live" /\ o \notin roots THEN "dead" ELSE h[o]]

\* mutant: nothing is ever reported dead
is_dead_never(h, v) == FALSE

\* mutant: the word of the value is looked up as an object, immediate or not
is_dead_unchecked(h, v) == v.id \notin DOMAIN h \/ h[v.id] = "dead"

\* Value::is_dead: mrb_sys_value_is_dead, false for an immediate value
is_dead(h, v) == ~immediate(v) /\ (v.id \notin DOMAIN h \/ h[v.id] = "dead")

\* the last operation on the collector: "restore" with the arena index it
\* restored to, "full_gc", or "other"; "none" on a fresh interpreter
GcOp(op, idx) == [op |-> op, idx |-> idx]

\* the objects allocated so far
Allocated(h) == {o \in DOMAIN h : h[o] # "unused"}

\* the record of a Value::protect call of a heap value: its object, the arena
\* slot mrb_gc_protect used, and the number of savepoints held at the call
Pin(v, a, s) == [obj |-> basic_ptr(v), pos |-> Len(a) + 1, depth |-> Len(s)]

\* the host takes a savepoint
GcSavepoint ==
    /\ Len(saves) < MaxSavepoints
    /\ saves' = Append(saves, [idx |-> create_arena_savepoint(arena),
                               allocated |-> Allocated(heap)])
    /\ released' = {}
    /\ gcOp' = GcOp("other", 0)
    /\ UNCHANGED <<arena, heap, top, scoped, pins, exc, frames, ret,
                   cloneVars, caseVars>>

\* the host restores (or drops) its innermost savepoint
GcRestore ==
    /\ saves # <<>>
    /\ LET n == Len(saves)
       IN /\ arena' = arena_restore(arena, saves[n].idx)
          /\ saves' = SubSeq(saves, 1, n - 1)
          /\ scoped' = scoped \cup (Allocated(heap) \ saves[n].allocated)
          /\ released' = {p \in pins : p.depth >= n}
          /\ pins' = {p \in pins : p.depth < n}
          /\ gcOp' = GcOp("restore", saves[n].idx)
    /\ UNCHANGED <<heap, top, exc, frames, ret, cloneVars, caseVars>>

\* interp.eval of a string literal: the VM allocates the String and keeps it
\* in its register; the allocation may leave the object in the arena
GcEvalString ==
    /\ \E o \in Objs :
         /\ heap[o] = "unused" /\ \A q \in 1..(o - 1) : heap[q] # "unused"
         /\ heap' = [heap EXCEPT ![o] = "live"]
         /\ top' = Some(StringValue(o))
         /\ \E in_arena \in BOOLEAN :
              /\ in_arena => Len(arena) < MaxRoots
              /\ arena' = IF in_arena THEN Append(arena, o) ELSE arena
    /\ released' = {}
    /\ gcOp' = GcOp("other", 0)
    /\ UNCHANGED <<saves, scoped, pins, exc, frames, ret, cloneVars, caseVars>>

\* interp.eval of an immediate literal, such as "27": the register holds no
\* heap object any more
GcEvalImmediate ==
    /\ top' = Nil
    /\ released' = {}
    /\ gcOp' = GcOp("other", 0)
    /\ UNCHANGED <<arena, heap, saves, scoped, pins, exc, frames, ret,
                   cloneVars, caseVars>>

\* the values the host can hold a handle of
HostValues == {StringValue(o) : o \in {q \in Objs : heap[q] = "live"}} \cup Immediates

\* the host calls Value::protect on a value it holds
GcProtect ==
    /\ Len(arena) < MaxRoots
    /\ \E v \in HostValues :
         /\ arena' = protect(arena, v)
         /\ pins' = IF immediate(v) THEN pins ELSE pins \cup {Pin(v, arena, saves)}
    /\ released' = {}
    /\ gcOp' = GcOp("other", 0)
    /\ UNCHANGED <<heap, top, saves, scoped, exc, frames, ret, cloneVars, caseVars>>

\* the host calls Value::freeze on a heap value it holds: the savepoint of the
\* funcall is restored before the frozen value is protected
GcFreeze ==
    /\ Len(arena) < MaxRoots
    /\ \E v \in HostValues :
         /\ ~immediate(v)
         /\ arena' = protect(arena_restore(arena, create_arena_savepoint(arena)), v)
         /\ pins' = pins \cup {Pin(v, arena, saves)}
    /\ released' = {}
    /\ gcOp' = GcOp("other", 0)
    /\ UNCHANGED <<heap, top, saves, scoped, exc, frames, ret, cloneVars, caseVars>>

\* the host calls interp.full_gc()
GcFullGc ==
    /\ heap' = full_gc(heap, Roots(arena, top))
    /\ released' = {}
    /\ gcOp' = GcOp("full_gc", 0)
    /\ UNCHANGED <<arena, top, saves, scoped, pins, exc, frames, ret,
                   cloneVars, caseVars>>

-----------------------------------------------------------------------------
(* Specifications *)

Init ==
    /\ arena = <<>>
    /\ exc = "null"
    /\ frames = <<>>
    /\ ret = <<>>
    /\ handles = <<>>
    /\ cloned = <<>>
    /\ gv = [cap |-> [group \in 0..MaxGroups |-> Nil],
             pre |-> Nil, post |-> Nil, last |-> Nil]
    /\ num_set_regexp_capture_globals = 0
    /\ cc = <<>>
    /\ heap = [o \in Objs |-> "unused"]
    /\ top = Nil
    /\ saves = <<>>
    /\ scoped = {}
    /\ pins = {}
    /\ released = {}
    /\ gcOp = GcOp("none", 0)

Next ==
    \/ FuncallTooManyArgs
    \/ FuncallDispatch
    \/ ProtectRun
    \/ VmAlloc
    \/ VmReturn
    \/ VmRaise
    \/ FuncallClassify
    \/ HostArenaRestore

\* the protected call dispatch
Spec == Init /\ [][Next]_vars

NextClone ==
    \/ ValueNew
    \/ ValueClone
    \/ ValueItself
    \/ ValueDrop

\* handles and their clones
SpecClone == Init /\ [][NextClone]_vars

NextReentrant ==
    \/ ReentrantTooManyArgs
    \/ ReentrantDispatch
    \/ ProtectRun
    \/ VmAlloc
    \/ VmReturn
    \/ VmRaise
    \/ FuncallClassify
    \/ HostArenaRestore

\* funcalls that nest: the VM calls back into host code
SpecReentrant == Init /\ [][NextReentrant]_vars

NextGc ==
    \/ GcSavepoint
    \/ GcRestore
    \/ GcEvalString
    \/ GcEvalImmediate
    \/ GcProtect
    \/ GcFreeze
    \/ GcFullGc

\* the host's use of savepoints, protect and is_dead around eval and full_gc
SpecGc == Init /\ [][NextGc]_vars

NextCase == CaseCompare

\* Regexp#=== on one interpreter
SpecCase == Init /\ [][NextCase]_vars

\* C10: immediately after a successful match with k groups, every capture
\* global $i with i >= k is nil, whatever successful matches, failed matches
\* and nil-candidate calls came before.
C10_NoStaleCaptureGlobals ==
    \A i \in 1..Len(cc) :
        (cc[i].outcome = "Ok" /\ cc[i].result) =>
            \A group \in DOMAIN gv.cap :
                group >= cc[i].captures[1].len => gv.cap[group] = Nil

\* a match with one group has succeeded on an interpreter whose earlier match
\* had set two capture globals
C10_Witness ==
    \E i \in 1..Len(cc) :
        /\ cc[i].outcome = "Ok" /\ cc[i].result
        /\ cc[i].prev = 2 /\ cc[i].captures[1].len = 1
        /\ gv.cap[0] # Nil /\ gv.cap[1] = Nil

\* the calls whose pattern engine found a match and that returned a result
Matched == {c \in {cc[i] : i \in 1..Len(cc)} : c.captures # Nil /\ c.outcome = "Ok"}

\* C11: after a successful match of k groups against s, $& holds group 0, $i
\* holds group i for 1 <= i < k, the recorded count is k, $~ is bound to a
\* MatchData, the call returns true, and with group 0 at [b, e) the pre-match
\* is s[0..b), the post-match is s[e..], and pre-match, $& and post-match
\* concatenated give s back
C11_SuccessfulMatchSetsGlobals ==
    \A c \in Matched :
        LET k == c.captures[1].len
            b == c.captures[1].b
            e == c.captures[1].e
        IN /\ gv.cap[0] = c.captures[1].groups[1]
           /\ \A i \in 1..(k - 1) : gv.cap[i] = c.captures[1].groups[i + 1]
           /\ num_set_regexp_capture_globals = k
           /\ gv.last # Nil
           /\ c.result = TRUE
           /\ gv.pre = Some(SubSeq(c.s, 1, b))
           /\ gv.post = Some(SubSeq(c.s, e + 1, Len(c.s)))
           /\ gv.cap[0] # Nil
           /\ gv.pre[1] \o gv.cap[0][1] \o gv.post[1] = c.s

\* a match of two groups, the second of which took no part, at the end of a
\* non-empty candidate: the pre-match is the whole candidate
C11_Witness ==
    \E c \in Matched :
        /\ c.captures[1].len = 2 /\ c.captures[1].groups[2] = Nil
        /\ Len(c.s) >= 1
        /\ gv.pre = Some(c.s) /\ gv.cap[0] = Some(<<>>) /\ gv.cap[1] = Nil
        /\ gv.post = Some(<<>>)

\* the record of a call whose pattern engine ran and found no match
NoMatchCall(c) == c.recv = "Onig" /\ c.arg = "String" /\ c.captures = Nil

\* C12: a call whose pattern does not match the candidate sets the pre-match,
\* the post-match and $~ to nil and returns false, and leaves the recorded
\* count, $& and every numbered capture global as they were
C12_NoMatchClearsLastMatchOnly ==
    [][(cc' # <<>> /\ NoMatchCall(cc'[1])) =>
          /\ gv'.pre = Nil /\ gv'.post = Nil /\ gv'.last = Nil
          /\ cc'[1].outcome = "Ok" /\ cc'[1].result = FALSE
          /\ num_set_regexp_capture_globals' = num_set_regexp_capture_globals
          /\ gv'.cap = gv.cap]_vars

\* a failed match on an interpreter whose earlier match had set two capture
\* globals: they are still set
C12_Witness ==
    /\ cc # <<>> /\ NoMatchCall(cc[1])
    /\ num_set_regexp_capture_globals = 2
    /\ gv.cap[0] # Nil /\ gv.cap[1] # Nil
    /\ gv.pre = Nil /\ gv.last = Nil

\* C13 as stated: a call with a nil candidate always sets $~ to nil and
\* returns false, and changes nothing else: $&, the numbered globals, the
\* pre-match, the post-match and the recorded count keep their values, and
\* the pattern engine is not run
C13_Original_NilCandidateAlwaysFalse ==
    [][(cc' # <<>> /\ cc'[1].arg = "Nil") =>
          /\ gv'.last = Nil
          /\ cc'[1].outcome = "Ok" /\ cc'[1].result = FALSE
          /\ gv'.cap = gv.cap /\ gv'.pre = gv.pre /\ gv'.post = gv.post
          /\ num_set_regexp_capture_globals' = num_set_regexp_capture_globals
          /\ cc'[1].captures = Nil]_vars

\* C13: a call with a nil candidate on a receiver that is a Regexp sets $~ to
\* nil and returns false, and changes nothing else; on a receiver that is no
\* Regexp it returns Fatal and changes nothing, $~ included; the pattern
\* engine is not run in either case
C13_NilCandidateOnRegexpReceiver ==
    [][(cc' # <<>> /\ cc'[1].arg = "Nil") =>
          /\ gv'.cap = gv.cap /\ gv'.pre = gv.pre /\ gv'.post = gv.post
          /\ num_set_regexp_capture_globals' = num_set_regexp_capture_globals
          /\ cc'[1].captures = Nil
          /\ cc'[1].result = FALSE
          /\ IF cc'[1].recv = "NotRegexp"
             THEN cc'[1].outcome = "Fatal" /\ gv'.last = gv.last
             ELSE cc'[1].outcome = "Ok" /\ gv'.last = Nil]_vars

\* a nil candidate on a Regexp after a match: $~ is nil, and $&, the
\* pre-match and the recorded count of that match are still there
C13_Witness ==
    /\ cc # <<>> /\ cc[1].arg = "Nil" /\ cc[1].recv # "NotRegexp"
    /\ gv.last = Nil
    /\ gv.cap[0] # Nil /\ gv.pre # Nil /\ gv.post # Nil
    /\ num_set_regexp_capture_globals > 0

\* C14 as stated: on a successful match the MatchData bound to $~ holds a copy
\* of the candidate text, the pattern of the receiver, and as start and end
\* offsets the span of group 0 of this match
C14_Original_MatchDataHoldsMatchSpan ==
    \A c \in Matched :
        /\ gv.last # Nil
        /\ gv.last[1].string = c.s
        /\ gv.last[1].regexp.kind = c.recv
        /\ gv.last[1].regexp.groups = c.captures[1].len
        /\ gv.last[1].start = c.captures[1].b
        /\ gv.last[1].end = c.captures[1].e

\* C14: on a successful match the MatchData bound to $~ holds a copy of the
\* candidate text, the pattern of the receiver, and as start and end offsets
\* 0 and the length of the candidate, whatever the span of group 0 is
C14_MatchDataHoldsWholeCandidate ==
    \A c \in Matched :
        /\ gv.last # Nil
        /\ gv.last[1].string = c.s
        /\ gv.last[1].regexp.kind = c.recv
        /\ gv.last[1].regexp.groups = c.captures[1].len
        /\ gv.last[1].start = 0
        /\ gv.last[1].end = Len(c.s)

\* a match whose group 0 is empty at the end of a non-empty candidate: its
\* span differs from the offsets of the MatchData in both ends
C14_Witness ==
    \E c \in Matched :
        /\ Len(c.s) >= 1
        /\ c.captures[1].b = Len(c.s) /\ c.captures[1].e = Len(c.s)
        /\ gv.last # Nil

\* C15: a call returns NoImplicitConversionToString exactly when the
\* candidate is neither nil nor converts to a string; a receiver that is no
\* Regexp, a regex that is not initialised when it is needed, and a MatchData
\* that cannot be built each return Fatal, and nothing else returns Fatal
C15_ErrorsClassified ==
    \A i \in 1..Len(cc) :
        LET c == cc[i]
            bad_candidate == c.arg \notin {"Nil", "String"}
            no_regexp == c.recv = "NotRegexp"
            no_regex == c.recv = "Uninit" /\ c.arg = "String"
            no_matchdata == c.captures # Nil /\ ~c.built
        IN /\ c.outcome = "NoImplicitConversionToString" <=> bad_candidate
           /\ c.outcome = "Fatal" <=>
                  (~bad_candidate /\ (no_regexp \/ no_regex \/ no_matchdata))

\* a candidate that does not convert, passed to a receiver that is no Regexp:
\* the call returns NoImplicitConversionToString
C15_Witness ==
    /\ cc # <<>>
    /\ cc[1].arg = "Fixnum" /\ cc[1].recv = "NotRegexp"
    /\ cc[1].outcome = "NoImplicitConversionToString"

\* a MatchData that could not be built after a match: the call returns Fatal
C15_WitnessFatal ==
    /\ cc # <<>>
    /\ cc[1].captures # Nil /\ ~cc[1].built /\ cc[1].outcome = "Fatal"

\* the entries of the arena
Rooted(a) == {a[i] : i \in 1..Len(a)}

\* C16: a heap value that protect() was called on is in the arena and is not
\* reported dead, full collections included, as long as no savepoint taken
\* before that call has been restored: the restore of a savepoint taken after
\* the call leaves it in its arena slot, and the restore of a savepoint taken
\* before the call removes that slot from the arena
C16_ProtectedUntilEarlierSavepointRestored ==
    /\ \A p \in pins :
          /\ p.pos <= Len(arena) /\ arena[p.pos] = p.obj
          /\ ~is_dead(heap, StringValue(p.obj))
    /\ \A r \in released : Len(arena) < r.pos

\* after a full collection, a protected String that neither another arena
\* slot nor the VM's register holds is alive, and another String is dead
C16_Witness ==
    /\ gcOp.op = "full_gc"
    /\ \E p \in pins :
          /\ \A i \in 1..Len(arena) : arena[i] = p.obj => i = p.pos
          /\ top # Some(StringValue(p.obj))
          /\ ~is_dead(heap, StringValue(p.obj))
          /\ \E o \in Objs : o # p.obj /\ is_dead(heap, StringValue(o))

\* savepoints nest: each is at or above the one taken before it, and none is
\* above the top of the arena
SavepointsNest ==
    \A i \in 1..Len(saves) :
        /\ saves[i].idx <= Len(arena)
        /\ i > 1 => saves[i - 1].idx <= saves[i].idx

\* C17 as stated: savepoints nest, and after the restore of a savepoint the
\* arena is back at the index of the savepoint but for the values that
\* protect() was called on after the savepoint was taken: they are still rooted
C17_Original_ProtectedSurviveRestore ==
    /\ SavepointsNest
    /\ gcOp.op = "restore" =>
          /\ \A i \in 1..Len(arena) :
                i > gcOp.idx => \E r \in released : arena[i] = r.obj
          /\ \A r \in released : r.obj \in Rooted(arena)

\* C17: savepoints nest, and the restore of a savepoint releases every value
\* rooted after it was taken, by an allocation or by protect(): the arena is
\* back at the index of the savepoint; the values protected before the
\* savepoint was taken keep their arena slots
C17_RestoreReleasesProtectedToo ==
    /\ SavepointsNest
    /\ gcOp.op = "restore" =>
          /\ Len(arena) = gcOp.idx
          /\ \A r \in released : r.pos > gcOp.idx
          /\ \A p \in pins : p.pos <= gcOp.idx /\ arena[p.pos] = p.obj

\* the restore of an inner savepoint has released a protected value that no
\* other arena slot holds, and a value protected before that savepoint is
\* still in its slot
C17_Witness ==
    /\ gcOp.op = "restore" /\ saves # <<>>
    /\ pins # {}
    /\ \E r \in released : r.obj \notin Rooted(arena)

\* C18: after a full collection, a heap value created inside a savepoint that
\* has been restored is reported dead unless it is the most recent eval
\* result or is in the arena by a protect() call in effect; the most recent
\* eval result is reported alive
C18_OnlyResultOrProtectedOutlives ==
    gcOp.op = "full_gc" =>
        /\ \A o \in scoped :
              (top # Some(StringValue(o)) /\ ~\E p \in pins : p.obj = o)
                  => is_dead(heap, StringValue(o))
        /\ top # Nil => ~is_dead(heap, top[1])

\* after the restore of the savepoint and a full collection, of two Strings
\* created inside the savepoint the first is dead and the second, the most
\* recent eval result, is alive
C18_Witness ==
    /\ gcOp.op = "full_gc" /\ saves = <<>>
    /\ scoped = {1, 2}
    /\ is_dead(heap, StringValue(1))
    /\ top = Some(StringValue(2)) /\ ~is_dead(heap, StringValue(2))

C20_ReentrantSavepointsNest ==
    [][/\ \A f \in {ret'[i] : i \in 1..Len(ret')} : f.exit_idx = f.arena_idx
       /\ \A i \in 1..Len(frames') :
             /\ frames'[i].arena_idx < Len(arena')
             /\ i > 1 => frames'[i - 1].arena_idx < frames'[i].arena_idx
       /\ (ret' # <<>> /\ (ret' # ret \/ Len(frames') < Len(frames))) =>
             /\ ret'[1].arena_idx <= Len(arena')
             /\ SubSeq(arena', 1, ret'[1].arena_idx)
                    = SubSeq(arena, 1, ret'[1].arena_idx)]_vars

\* an inner funcall that raised has returned while the outer funcall is in
\* progress: the arena is back at the inner savepoint, above the outer one
C20_Witness ==
    /\ Len(frames) = 1 /\ Top.pc = "vm"
    /\ \E f \in Returned :
          /\ f.kind = "Exec"
          /\ f.arena_idx > Top.arena_idx
          /\ Len(arena) = f.arena_idx

C22_FatalWritesNothing ==
    [][(cc' # <<>> /\ cc'[1].outcome = "Fatal") =>
          /\ gv' = gv
          /\ num_set_regexp_capture_globals' = num_set_regexp_capture_globals]_vars

====
